---- MODULE Spec2Model ----
(***************************************************************************)
(* Model of src/duolingo.py: the typed entities, the history               *)
(* reconciliation (sync_database_with_summaries) and the deserialization   *)
(* boundary (Duolingo.get_summaries, Duolingo.get_user_data).              *)
(***************************************************************************)
EXTENDS Integers, Sequences, FiniteSets, TLC

VARIABLES
    database,       \* argument `database` of the last call: list[DatabaseEntry]
    summaries,      \* argument `summaries` of the last call: list[Summary]
    new_database,   \* first component of the returned tuple (filtered_database)
    changed,        \* second component of the returned tuple
    status,         \* "idle" before a call, then "returned" or "KeyError"
    call,           \* which call produced the outcome
    prev,           \* outcome of the call before the last one
    daily_experience_progress,  \* Duolingo.daily_experience_progress (raw JSON)
    user_data,                  \* Duolingo.user_data (raw JSON)
    api                         \* outcome of the last get_summaries / get_user_data

vars == <<database, summaries, new_database, changed, status, call, prev,
          daily_experience_progress, user_data, api>>

syncVars == <<database, summaries, new_database, changed, status, call, prev>>
apiVars == <<daily_experience_progress, user_data, api>>

(***************************************************************************)
(* Bounds of the model.                                                    *)
(***************************************************************************)
MaxSummaries == 3
MaxRawSummaries == 2

(***************************************************************************)
(* datetime.fromtimestamp(ts).strftime(...) in the local time zone.        *)
(***************************************************************************)
SecondsPerDay == 24 * 60 * 60
UtcOffset == 9 * 60 * 60

\* proleptic Gregorian date of a day, given its 400-year era, its year of the
\* era, its day of the (March-based) year and its month index (0 = March)
CivilFromMonthIndex(era, yoe, doy, mp) ==
    [year |-> yoe + era * 400 + (IF mp >= 10 THEN 1 ELSE 0),
     month |-> IF mp < 10 THEN mp + 3 ELSE mp - 9,
     day |-> doy - (153 * mp + 2) \div 5 + 1]

CivilFromDayOfYear(era, yoe, doy) ==
    CivilFromMonthIndex(era, yoe, doy, (5 * doy + 2) \div 153)

CivilFromYearOfEra(era, doe, yoe) ==
    CivilFromDayOfYear(era, yoe, doe - (365 * yoe + yoe \div 4 - yoe \div 100))

CivilFromDayOfEra(era, doe) ==
    CivilFromYearOfEra(era, doe,
        (doe - doe \div 1460 + doe \div 36524 - doe \div 146096) \div 365)

\* proleptic Gregorian date of the day number z (days since 1970-01-01, z >= 0)
CivilFromDays(z) ==
    CivilFromDayOfEra((z + 719468) \div 146097, (z + 719468) % 146097)

Pad2(n) == IF n < 10 THEN "0" \o ToString(n) ELSE ToString(n)

\* strftime("%Y/%m/%d")
strftime_date(ts) ==
    LET c == CivilFromDays((ts + UtcOffset) \div SecondsPerDay)
    IN ToString(c.year) \o "/" \o Pad2(c.month) \o "/" \o Pad2(c.day)

\* strftime("%H:%M:%S")
strftime_time(ts) ==
    LET sod == (ts + UtcOffset) % SecondsPerDay
    IN Pad2(sod \div 3600) \o ":" \o Pad2((sod % 3600) \div 60) \o ":" \o Pad2(sod % 60)

(***************************************************************************)
(* Typed entities.                                                         *)
(***************************************************************************)
Summary(date, daily_goal_xp, gained_xp, num_sessions, total_session_time) ==
    [date |-> date, daily_goal_xp |-> daily_goal_xp, gained_xp |-> gained_xp,
     num_sessions |-> num_sessions, total_session_time |-> total_session_time]

Experience(xp_goal, xp_today) == [xp_goal |-> xp_goal, xp_today |-> xp_today]

SessionInformation(number_of_sessions, session_time) ==
    [number_of_sessions |-> number_of_sessions, session_time |-> session_time]

StreakInformation(site_streak) == [site_streak |-> site_streak]

Progression(experience, session_information) ==
    [experience |-> experience, session_information |-> session_information]

DatabaseEntry(date, progression, streak_information, time) ==
    [date |-> date, progression |-> progression,
     streak_information |-> streak_information, time |-> time]

TimeAndStreakMapping(time, streak) == [time |-> time, streak |-> streak]

summary_to_progression(summary) ==
    Progression(Experience(summary.daily_goal_xp, summary.gained_xp),
                SessionInformation(summary.num_sessions, summary.total_session_time))

user_data_to_streak_information(ud) == StreakInformation(ud.site_streak)

\* `now` is the wall clock read by datetime.now()
progression_to_database_entry(progression, streak_information, now) ==
    DatabaseEntry(strftime_date(now), progression, streak_information,
                  strftime_time(now))

(***************************************************************************)
(* Reconciliation.                                                         *)
(***************************************************************************)
\* dumps(data.progression.model_dump(), sort_keys=True)
dumps_progression(p) ==
    "{\"experience\": {\"xp_goal\": " \o ToString(p.experience.xp_goal)
    \o ", \"xp_today\": " \o ToString(p.experience.xp_today)
    \o "}, \"session_information\": {\"number_of_sessions\": "
    \o ToString(p.session_information.number_of_sessions)
    \o ", \"session_time\": " \o ToString(p.session_information.session_time)
    \o "}}"

\* dumps(data.streak_information.model_dump(), sort_keys=True)
dumps_streak_information(s) == "{\"site_streak\": " \o ToString(s.site_streak) \o "}"

\* the dict comprehension over `database`: a later entry of a date replaces an earlier one
time_and_streak_record(db) ==
    [d \in {db[i].date : i \in DOMAIN db} |->
        LET last == CHOOSE i \in DOMAIN db :
                        /\ db[i].date = d
                        /\ \A j \in DOMAIN db : db[j].date = d => j <= i
        IN TimeAndStreakMapping(db[last].time, db[last].streak_information.site_streak)]

\* mutant: the summaries are processed in their input order
reversed_not(seq) == seq

\* summaries[::-1]
reversed(seq) == [i \in 1..Len(seq) |-> seq[Len(seq) + 1 - i]]

NoEntry == DatabaseEntry("", Progression(Experience(0, 0), SessionInformation(0, 0)),
                         StreakInformation(0), "")

\* mutant: the entry's time is regenerated from the summary's timestamp
sync_database_with_summary_retimed(summary, meta) ==
    LET summary_date == strftime_date(summary.date)
    IN IF summary_date \notin DOMAIN meta
       THEN [raised |-> "KeyError", is_none |-> FALSE, entry |-> NoEntry]
       ELSE [raised |-> "",
             is_none |-> FALSE,
             entry |-> DatabaseEntry(summary_date,
                                     summary_to_progression(summary),
                                     StreakInformation(meta[summary_date].streak),
                                     strftime_time(summary.date))]

\* mutant: the streak is advanced by one for every reconciled day
sync_database_with_summary_restreaked(summary, meta) ==
    LET summary_date == strftime_date(summary.date)
    IN IF summary_date \notin DOMAIN meta
       THEN [raised |-> "KeyError", is_none |-> FALSE, entry |-> NoEntry]
       ELSE [raised |-> "",
             is_none |-> FALSE,
             entry |-> DatabaseEntry(summary_date,
                                     summary_to_progression(summary),
                                     StreakInformation(meta[summary_date].streak + 1),
                                     meta[summary_date].time)]

\* meta[summary_date] raises KeyError when the date is no key of meta
sync_database_with_summary(summary, meta) ==
    LET summary_date == strftime_date(summary.date)
    IN IF summary_date \notin DOMAIN meta
       THEN [raised |-> "KeyError", is_none |-> FALSE, entry |-> NoEntry]
       ELSE LET time_and_streak == meta[summary_date]
            IN [raised |-> "",
                is_none |-> FALSE,
                entry |-> DatabaseEntry(summary_date,
                                        summary_to_progression(summary),
                                        StreakInformation(time_and_streak.streak),
                                        time_and_streak.time)]

progression_as_set(db) == {dumps_progression(db[i].progression) : i \in DOMAIN db}

streak_information_as_set(db) ==
    {dumps_streak_information(db[i].streak_information) : i \in DOMAIN db}

\* mutant: the payloads are compared entry by entry, in list order
out_of_sync_ordered(db, filtered_database) ==
    LET differs(i) == \/ i \notin DOMAIN filtered_database
                      \/ filtered_database[i].progression # db[i].progression
                      \/ filtered_database[i].streak_information # db[i].streak_information
    IN [progression |-> {dumps_progression(db[i].progression) :
                            i \in {j \in DOMAIN db : differs(j)}},
        streak_information |-> {}]

\* mutant: the difference is taken the other way round
out_of_sync_swapped(db, filtered_database) ==
    [progression |-> progression_as_set(filtered_database) \ progression_as_set(db),
     streak_information |->
        streak_information_as_set(filtered_database) \ streak_information_as_set(db)]

\* current_..._as_set.difference(filtered_..._as_set), for both payload kinds
out_of_sync(db, filtered_database) ==
    [progression |-> progression_as_set(db) \ progression_as_set(filtered_database),
     streak_information |->
        streak_information_as_set(db) \ streak_information_as_set(filtered_database)]

sync_database_with_summaries(sums, db) ==
    LET meta == time_and_streak_record(db)
        rev == reversed(sums)
        results == [i \in DOMAIN rev |-> sync_database_with_summary(rev[i], meta)]
    IN IF \E i \in DOMAIN results : results[i].raised # ""
       THEN [status |-> "KeyError", new_database |-> <<>>, changed |-> FALSE]
       ELSE LET kept == SelectSeq(results, LAMBDA item : ~item.is_none)
                filtered_database == [i \in DOMAIN kept |-> kept[i].entry]
                oos == out_of_sync(db, filtered_database)
            IN [status |-> "returned",
                new_database |-> filtered_database,
                changed |-> \/ Cardinality(oos.progression) > 0
                            \/ Cardinality(oos.streak_information) > 0]

(***************************************************************************)
(* Inputs: the fetched summaries and the stored history.                   *)
(***************************************************************************)
\* `date` of the summaries: midnight UTC of 2024-04-23, -24, -25
Timestamps == {1713830400, 1713916800, 1714003200}

\* wall clock at which the entry of each of those days was first captured,
\* newest first
CaptureInstants == <<1714003200 + 50400, 1713916800 + 7200, 1713830400 + 45000>>

\* <<dailyGoalXp, gainedXp, numSessions, totalSessionTime>>
Payloads == {<<20, 15, 1, 0>>, <<20, 60, 4, 0>>}

Streaks == {5, 6}

SummaryPool == {Summary(ts, p[1], p[2], p[3], p[4]) : ts \in Timestamps, p \in Payloads}

SummaryLists == UNION {[1..n -> SummaryPool] : n \in 0..MaxSummaries}

EntriesAt(now) ==
    {progression_to_database_entry(
        Progression(Experience(p[1], p[2]), SessionInformation(p[3], p[4])),
        StreakInformation(s), now) : p \in Payloads, s \in Streaks}

\* the histories with at most one entry per instant, in the order of the instants
RECURSIVE HistoriesOver(_)
HistoriesOver(instants) ==
    IF instants = <<>>
    THEN {<<>>}
    ELSE LET rest == HistoriesOver(Tail(instants))
         IN rest \cup {<<e>> \o h : e \in EntriesAt(Head(instants)), h \in rest}

\* stored histories: at most one entry per captured day, newest first
Histories == HistoriesOver(CaptureInstants)

(***************************************************************************)
(* Deserialization boundary: raw JSON of the two API responses.            *)
(***************************************************************************)
\* a JSON scalar, or the absence of a key
JInt(v) == [t |-> "int", v |-> v]
JNumericStr(v) == [t |-> "numeric_str", v |-> v]
JStr == [t |-> "str", v |-> 0]
JNull == [t |-> "null", v |-> 0]
Absent == [t |-> "absent", v |-> 0]

SummaryKeys == {"date", "dailyGoalXp", "gainedXp", "numSessions", "totalSessionTime",
                "gained_xp", "frozen"}

\* a JSON value of kind t; an object's members are given for every key of interest
RawSummary(t, date, dailyGoalXp, gainedXp, numSessions, totalSessionTime, gained_xp, frozen) ==
    [t |-> t,
     members |-> [k \in SummaryKeys |->
        CASE k = "date" -> date
          [] k = "dailyGoalXp" -> dailyGoalXp
          [] k = "gainedXp" -> gainedXp
          [] k = "numSessions" -> numSessions
          [] k = "totalSessionTime" -> totalSessionTime
          [] k = "gained_xp" -> gained_xp
          [] k = "frozen" -> frozen]]

RawSummaryPool ==
    {RawSummary("object", JInt(1713916800), JInt(20), g[1], JInt(1), JInt(0), g[2], JInt(0)) :
        g \in {<<JInt(15), Absent>>, <<Absent, Absent>>, <<Absent, JInt(15)>>,
               <<JStr, Absent>>, <<JNumericStr(15), Absent>>, <<JNull, Absent>>}}
    \cup {RawSummary("object", JNull, JInt(20), JInt(15), JInt(1), JInt(0), Absent, Absent),
          RawSummary("int", Absent, Absent, Absent, Absent, Absent, Absent, Absent)}

RawSummaryLists == UNION {[1..n -> RawSummaryPool] : n \in 0..MaxRawSummaries}

\* the response of the xp_summaries endpoint: t is the kind of the top-level value,
\* summaries_t the kind of its "summaries" member ("absent": no such key)
RawProgress(t, summaries_t, items) == [t |-> t, summaries_t |-> summaries_t, items |-> items]

RawProgressPool ==
    {RawProgress("object", "array", items) : items \in RawSummaryLists}
    \cup {RawProgress("object", st, <<>>) : st \in {"absent", "null", "int"}}
    \cup {RawProgress(t, "absent", <<>>) : t \in {"array", "null"}}

\* the response of the users endpoint
RawUser(t, site_streak, id) == [t |-> t, site_streak |-> site_streak, id |-> id]

RawUserPool ==
    {RawUser("object", st, JInt(211604374)) :
        st \in {JInt(10), JNumericStr(10), JStr, JNull, Absent}}
    \cup {RawUser(t, Absent, Absent) : t \in {"array", "null"}}

\* pydantic's validation of an `int` field (lax mode: a numeric string is converted)
validate_int(raw) == raw.t \in {"int", "numeric_str"}

\* the value of a field: by its alias, or by its name (populate_by_name=True)
field_value(members, alias, name) ==
    IF members[alias].t # "absent" THEN members[alias] ELSE members[name]

\* Summary(**data)
construct_Summary(data) ==
    IF data.t # "object"
    THEN [raised |-> "TypeError", value |-> Summary(0, 0, 0, 0, 0)]
    ELSE LET date == field_value(data.members, "date", "date")
             goal == field_value(data.members, "dailyGoalXp", "dailyGoalXp")
             gained == field_value(data.members, "gainedXp", "gained_xp")
             num == field_value(data.members, "numSessions", "numSessions")
             total == field_value(data.members, "totalSessionTime", "totalSessionTime")
         IN IF \A f \in {date, goal, gained, num, total} : validate_int(f)
            THEN [raised |-> "", value |-> Summary(date.v, goal.v, gained.v, num.v, total.v)]
            ELSE [raised |-> "ValidationError", value |-> Summary(0, 0, 0, 0, 0)]

\* UserDataResponse(**self.user_data)
construct_UserDataResponse(data) ==
    IF data.t # "object"
    THEN [raised |-> "TypeError", site_streak |-> 0]
    ELSE IF validate_int(data.site_streak)
         THEN [raised |-> "", site_streak |-> data.site_streak.v]
         ELSE [raised |-> "ValidationError", site_streak |-> 0]

\* first exception raised while the list comprehension runs, "" when none is
first_raised(results) ==
    IF \A i \in DOMAIN results : results[i].raised = ""
    THEN ""
    ELSE LET first == CHOOSE i \in DOMAIN results :
                          /\ results[i].raised # ""
                          /\ \A j \in DOMAIN results : results[j].raised # "" => i <= j
         IN results[first].raised

\* what the except clauses of get_summaries / get_user_data make of an exception
handled(raised, caught) == IF raised \in caught THEN "BreakingAPIChange" ELSE raised

get_summaries(progress) ==
    LET raised ==
            IF progress.t # "object" THEN "TypeError"
            ELSE IF progress.summaries_t = "absent" THEN "KeyError"
            ELSE IF progress.summaries_t # "array" THEN "TypeError"
            ELSE first_raised([i \in DOMAIN progress.items |->
                                    construct_Summary(progress.items[i])])
    IN IF raised = ""
       THEN [op |-> "get_summaries", outcome |-> "ok",
             value |-> [i \in DOMAIN progress.items |->
                            construct_Summary(progress.items[i]).value],
             site_streak |-> 0]
       ELSE [op |-> "get_summaries",
             outcome |-> handled(raised, {"KeyError", "ValidationError"}),
             value |-> <<>>, site_streak |-> 0]

get_user_data(ud) ==
    LET response == construct_UserDataResponse(ud)
    IN IF response.raised = ""
       THEN [op |-> "get_user_data", outcome |-> "ok", value |-> <<>>,
             site_streak |-> response.site_streak]
       ELSE [op |-> "get_user_data",
             outcome |-> handled(response.raised, {"ValidationError"}),
             value |-> <<>>, site_streak |-> 0]

NoApi == [op |-> "none", outcome |-> "none", value |-> <<>>, site_streak |-> 0]

\* the caller's reversal between chronological and storage order
Reverse(seq) == [i \in 1..Len(seq) |-> seq[Len(seq) + 1 - i]]

NoOutcome == [status |-> "idle", new_database |-> <<>>, changed |-> FALSE]

Init ==
    /\ database \in Histories
    /\ summaries \in SummaryLists
    /\ new_database = <<>>
    /\ changed = FALSE
    /\ status = "idle"
    /\ call = "none"
    /\ prev = NoOutcome
    /\ daily_experience_progress = RawProgress("object", "array", <<>>)
    /\ user_data = RawUser("object", JInt(10), JInt(211604374))
    /\ api = NoApi

\* one call sync_database_with_summaries(sums, db), its outcome recorded
Call(kind, sums, db) ==
    LET r == sync_database_with_summaries(sums, db)
    IN /\ database' = db
       /\ summaries' = sums
       /\ new_database' = r.new_database
       /\ changed' = r.changed
       /\ status' = r.status
       /\ call' = kind
       /\ prev' = [status |-> status, new_database |-> new_database, changed |-> changed]
       /\ UNCHANGED apiVars

\* the first call, on the stored history and the fetched summaries
Sync ==
    /\ call = "none"
    /\ Call("first", summaries, database)

\* the same summaries against the history the first call returned
SyncAgain ==
    /\ call = "first"
    /\ status = "returned"
    /\ Call("again", summaries, new_database)

\* ... against that history in reversed (storage) order
SyncAgainReversed ==
    /\ call = "first"
    /\ status = "returned"
    /\ Call("again_reversed", summaries, Reverse(new_database))

\* the first call's arguments with the history reversed
SyncReversedHistory ==
    /\ call = "first"
    /\ Call("reversed_history", summaries, Reverse(database))

\* the first call's arguments with the summaries reversed
SyncReversedSummaries ==
    /\ call = "first"
    /\ Call("reversed_summaries", Reverse(summaries), database)

Next ==
    \/ Sync
    \/ SyncAgain
    \/ SyncAgainReversed
    \/ SyncReversedHistory
    \/ SyncReversedSummaries

Spec == Init /\ [][Next]_vars

(***************************************************************************)
(* The deserialization boundary on its own: fetch_data has stored the two  *)
(* raw responses, get_summaries and get_user_data turn them into entities. *)
(***************************************************************************)
InitApi ==
    /\ daily_experience_progress \in RawProgressPool
    /\ user_data \in RawUserPool
    /\ api = NoApi
    /\ database = <<>>
    /\ summaries = <<>>
    /\ new_database = <<>>
    /\ changed = FALSE
    /\ status = "idle"
    /\ call = "none"
    /\ prev = NoOutcome

GetSummaries ==
    /\ api' = get_summaries(daily_experience_progress)
    /\ UNCHANGED <<daily_experience_progress, user_data>>
    /\ UNCHANGED syncVars

GetUserData ==
    /\ api' = get_user_data(user_data)
    /\ UNCHANGED <<daily_experience_progress, user_data>>
    /\ UNCHANGED syncVars

NextApi ==
    \/ GetSummaries
    \/ GetUserData

SpecApi == InitApi /\ [][NextApi]_vars

(***************************************************************************)
(* Properties.                                                             *)
(***************************************************************************)
Dates(db) == {db[i].date : i \in DOMAIN db}

SummaryDates(sums) == {strftime_date(sums[k].date) : k \in DOMAIN sums}

\* no two summaries of the same calendar day
UniqueSummaryDays(sums) ==
    \A k, l \in DOMAIN sums :
        strftime_date(sums[k].date) = strftime_date(sums[l].date) => k = l

UniqueDates(db) == \A i, j \in DOMAIN db : db[i].date = db[j].date => i = j

\* the summary's four activity numbers are those of the progression
SameActivity(summary, progression) ==
    /\ progression.experience.xp_goal = summary.daily_goal_xp
    /\ progression.experience.xp_today = summary.gained_xp
    /\ progression.session_information.number_of_sessions = summary.num_sessions
    /\ progression.session_information.session_time = summary.total_session_time

\* C1: in a returned history, every day that has an entry in the current history
\* and a summary has an entry whose time and site_streak are those of the current
\* history's entry of that day, while its progression is that of a summary of
\* that day.
TimeAndStreakPinned ==
    status = "returned" =>
        /\ \A k \in DOMAIN summaries :
              strftime_date(summaries[k].date) \in Dates(database) =>
                  \E i \in DOMAIN new_database :
                      /\ new_database[i].date = strftime_date(summaries[k].date)
                      /\ SameActivity(summaries[k], new_database[i].progression)
        /\ \A i \in DOMAIN new_database : \A j \in DOMAIN database :
              database[j].date = new_database[i].date =>
                  /\ new_database[i].time = database[j].time
                  /\ new_database[i].streak_information.site_streak
                        = database[j].streak_information.site_streak

\* C1 witness: a first call returned an entry whose progression was revised by the
\* summary while the day's time and streak are the recorded ones.
TimeAndStreakPinnedWitness ==
    /\ call = "first"
    /\ status = "returned"
    /\ \E i \in DOMAIN new_database : \E j \in DOMAIN database :
          /\ database[j].date = new_database[i].date
          /\ database[j].progression # new_database[i].progression
          /\ database[j].time = new_database[i].time
          /\ database[j].time # strftime_time(summaries[Len(summaries) + 1 - i].date)

\* C2 (as claimed): a call never raises; the summaries whose day is in the current
\* history are reconciled and the others contribute nothing.
ReconcileIsTotal ==
    call = "first" =>
        /\ status = "returned"
        /\ Dates(new_database) = SummaryDates(summaries) \cap Dates(database)

\* C3 (as claimed): every date of the current history has an entry in the
\* returned history.
NoHistoryLost ==
    status = "returned" => Dates(database) \subseteq Dates(new_database)

\* C4 (as claimed): changed is true exactly when the progression payload sets or
\* the streak payload sets of the current and the returned history differ (here
\* for summaries of distinct days).
ChangedIffPayloadSetsDiffer ==
    (status = "returned" /\ UniqueSummaryDays(summaries)) =>
        (changed <=> \/ progression_as_set(database) # progression_as_set(new_database)
                     \/ streak_information_as_set(database)
                            # streak_information_as_set(new_database))

Idempotent ==
    call \in {"again", "again_reversed"} =>
        /\ status = "returned"
        /\ changed = FALSE
        /\ new_database = prev.new_database

\* C6 witness: the first call reported a change, the second ran on the reversed
\* output (which differs from the output) and returned at least two entries.
IdempotentWitness ==
    /\ call = "again_reversed"
    /\ prev.changed
    /\ Len(new_database) >= 2
    /\ database # prev.new_database
    /\ changed = FALSE

\* C7 (as claimed): a history with one entry per date is reconciled into a history
\* with at most one entry per date.
DateUniquenessPreserved ==
    (status = "returned" /\ UniqueDates(database)) => UniqueDates(new_database)

\* C8: reversing the history, or the summaries, leaves the outcome's changed flag
\* (and whether the call returns at all) as it was.
ChangedIsOrderIndependent ==
    call \in {"reversed_history", "reversed_summaries"} =>
        /\ status = prev.status
        /\ changed = prev.changed

\* C8 witness: a call on reversed summaries whose returned history is not the
\* one returned for the original order, with a change reported both times.
ChangedIsOrderIndependentWitness ==
    /\ call = "reversed_summaries"
    /\ status = "returned"
    /\ new_database # prev.new_database
    /\ Len(database) >= 2
    /\ changed
    /\ prev.changed

\* C9: the i-th entry of the returned history is the reconciliation of the i-th
\* summary from the end of the input.
ChronologicalProcessing ==
    status = "returned" =>
        /\ Len(new_database) = Len(summaries)
        /\ \A i \in DOMAIN new_database :
              LET summary == summaries[Len(summaries) + 1 - i]
              IN /\ new_database[i].date = strftime_date(summary.date)
                 /\ SameActivity(summary, new_database[i].progression)

\* C9 witness: three summaries, newest first, all of days in the history; the
\* returned history lists the oldest day first.
ChronologicalProcessingWitness ==
    /\ call = "first"
    /\ status = "returned"
    /\ Len(summaries) = 3
    /\ summaries[1].date > summaries[2].date
    /\ summaries[2].date > summaries[3].date
    /\ new_database[1].date = strftime_date(summaries[3].date)
    /\ new_database[3].date = strftime_date(summaries[1].date)
    /\ new_database[1].date = "2024/04/23"
    /\ new_database[3].date = "2024/04/25"

\* C10 (as claimed): get_summaries and get_user_data either return the typed
\* entities or fail with BreakingAPIChange.
OnlySchemaMismatch == api.outcome \in {"none", "ok", "BreakingAPIChange"}

====
